---- MODULE Spec2Model ----
(***************************************************************************)
(* kaolin/datasets/modelnet.py: the ModelNet dataset adapters.             *)
(*                                                                         *)
(* The state is a directory tree <basedir>/<category>/<split>/*.off (fixed *)
(* for a behaviour, arbitrary within the bounds) and one dataset object at *)
(* a time: its constructor arguments, the position of its constructor, its *)
(* fields (categories, paths, labels, sample_cache) and the outcome of the *)
(* last indexed access.  The constructors of ModelNet and                  *)
(* ModelNetPointCloud are stepped statement by statement; an indexed       *)
(* access is one step.                                                     *)
(***************************************************************************)
EXTENDS Integers, Sequences, FiniteSets, TLC

\* ------------------------------------------------------------- bounds
MaxFiles == 1     \* *.off files in one <category>/<split> directory: 0..MaxFiles
MaxCats == 2      \* length of the caller's category list: 0..MaxCats
MaxPoints == 2    \* num_points and sample_points: 1..MaxPoints

\* ------------------------------------------------------------- inputs
\* Directories that exist under basedir, and a name that is no directory.
DirNames == {"bed", "chair"}
CatNames == DirNames \cup {"sofa"}
Splits == {"train", "test"}
SplitArgs == Splits \cup {"val"}
RepArgs == {"mesh", "pointcloud", "voxels"}
Classes == {"ModelNet", "ModelNetPointCloud", "ModelNetVoxels"}
Scanning == {"ModelNet", "ModelNetPointCloud"}

SeqsUpTo(S, n) == UNION {[1..k -> S] : k \in 0..n}
\* categories=None and categories=[] are both the empty sequence: both are falsy.
CatLists == SeqsUpTo(CatNames, MaxCats)
Perms(S) == {p \in [1..Cardinality(S) -> S] : \A a \in S : \E k \in DOMAIN p : p[k] = a}

VARIABLES
  tree,        \* tree[cat][split]: number of *.off files in basedir/cat/split
  dirOrder,    \* the order in which basedir.iterdir() yields the directories
  cls,         \* class of the object under construction or in use
  args,        \* the constructor's arguments that it reads: rep, split, categories
  opts,        \* the arguments it only stores: transform, num_points, sample_points
  pc,          \* position of the constructor
  err,         \* the exception a failed constructor raised
  avail,       \* avail_categories
  categories,  \* self.categories
  paths,       \* self.paths
  labels,      \* self.labels
  catIdx,      \* idx of `for idx, cat in enumerate(self.categories)`
  pending,     \* files of catdir.glob('*.off') not yet iterated over
  events,      \* what the constructor has done so far
  cache,       \* self.sample_cache, as its (key, value) pairs
  nsampled,    \* pairs (idx, how often mesh.sample ran for self.paths[idx])
  ret,         \* outcome of the last indexed access
  prev         \* (path, label) pairs of the previous construction, when it
               \* had the same category list and split as this one

vars == <<tree, dirOrder, cls, args, opts, pc, err, avail, categories, paths, labels,
          catIdx, pending, events, cache, nsampled, ret, prev>>

fsVars == <<tree, dirOrder>>
loopVars == <<avail, categories, paths, labels, catIdx, pending>>
accessVars == <<cache, nsampled, ret>>

\* ------------------------------------------------------------- module level
\* The names the module binds at import time.
ModuleGlobals == {"Callable", "Iterable", "Optional", "Union", "torch", "sys",
                  "Path", "sio", "np", "kal"}

\* ------------------------------------------------------------- constructors
\* (ValidRepAny, GlobTrainOnly, LabelByCount, LabelZero, LabelOneBased,
\* CacheMissAlways and ChoiceWithReplacement are faulty variants of the
\* definitions they precede, against which the properties are tested.)
ValidRepAny(rep) == TRUE
ValidRep(rep) == rep \in {"mesh", "pointcloud"}

ValidSplit(split) == split \in {"train", "test"}

\* self.categories = categories or avail_categories
SelfCategories(cats, av) == IF cats # <<>> THEN cats ELSE av

\* catdir.glob('*.off') for catdir = basedir / cat / split
GlobTrainOnly(cat, split) == [k \in 1..tree[cat]["train"] |-> <<cat, "train", k>>]
Glob(cat, split) == [k \in 1..tree[cat][split] |-> <<cat, split, k>>]

\* self.labels.append(idx)
LabelByCount(idx, sofar) == Len(sofar)
LabelZero(idx, sofar) == 0
LabelOneBased(idx, sofar) == idx + 1
LabelFor(idx, sofar) == idx

\* The exception the argument checks raise, "" when they pass.  The first
\* statement of ModelNetVoxels.__init__ reads os.path.exists, and the module
\* imports neither os nor glob: it raises NameError before anything else runs.
ArgCheck(c, a) ==
  IF c = "ModelNetVoxels"
    THEN IF "os" \notin ModuleGlobals THEN "NameError" ELSE ""
  ELSE IF c = "ModelNet" /\ ~ValidRep(a.rep) THEN "ValueError"
  ELSE IF ~ValidSplit(a.split) THEN "ValueError"
  ELSE ""

RepSets(c) == IF c = "ModelNet" THEN RepArgs ELSE {"-"}

\* The arguments the constructor reads.  (The ones it only stores are drawn
\* where it stores them, in NextCategory.)
ArgSets(c) ==
  [rep : RepSets(c),
   split : IF c = "ModelNetVoxels" THEN {"-"} ELSE SplitArgs,
   categories : CatLists]

NoOpts == [transform |-> FALSE, num_points |-> 0, sample_points |-> 0]

\* transform (set or None), num_points, and ModelNetPointCloud's sample_points
OptSets(c) ==
  [transform : BOOLEAN,
   num_points : 1..MaxPoints,
   sample_points : IF c = "ModelNetPointCloud" THEN 1..MaxPoints ELSE {0}]

Pairs(ps, ls) == {<<ps[k], ls[k]>> : k \in DOMAIN ps \cap DOMAIN ls}

\* The state of a freshly allocated object on entry to its constructor.
Enter(c, a) ==
  /\ cls' = c
  /\ args' = a
  /\ opts' = NoOpts
  /\ err' = ArgCheck(c, a)
  /\ pc' = IF ArgCheck(c, a) # "" THEN "error" ELSE "validated"
  /\ avail' = <<>>
  /\ categories' = <<>>
  /\ paths' = <<>>
  /\ labels' = <<>>
  /\ catIdx' = 0
  /\ pending' = <<>>
  /\ events' = {}
  /\ cache' = {}
  /\ nsampled' = {}
  /\ ret' = [kind |-> "none"]
  /\ UNCHANGED fsVars

\* The first constructor call: the argument checks, up to the listing of basedir.
Construct(c, a) ==
  /\ pc = "none"
  /\ Enter(c, a)
  /\ prev' = {}

\* A later constructor call with the same category list and split, of either
\* directory-scanning class; the object built before is dropped.  (Objects
\* share no state, so calls with other arguments behave as a first call.)
Reconstruct(c, rep) ==
  /\ pc = "done"
  /\ cls \in Scanning
  /\ Enter(c, [rep |-> rep, split |-> args.split, categories |-> args.categories])
  /\ prev' = {Pairs(paths, labels)}

\* avail_categories = [...basedir.iterdir()...]; self.categories; self.paths = []
ListDir ==
  /\ pc = "validated"
  /\ avail' = dirOrder
  /\ categories' = SelfCategories(args.categories, dirOrder)
  /\ paths' = <<>>
  /\ labels' = <<>>
  /\ catIdx' = 0
  /\ pending' = <<>>
  /\ events' = events \cup {"listdir"}
  /\ pc' = "loop"
  /\ UNCHANGED <<fsVars, cls, args, opts, err, accessVars, prev>>

InAvail(cat) == \E k \in DOMAIN avail : avail[k] = cat

\* The head of the loop over the categories: the next category is checked and
\* globbed, or the loop is over and the remaining fields are set.
NextCategory ==
  /\ pc = "loop"
  /\ IF catIdx >= Len(categories)
       THEN /\ pc' = "done"
            /\ opts' \in OptSets(cls)
            /\ cache' = {}
            /\ UNCHANGED <<err, pending, events>>
     ELSE IF ~InAvail(categories[catIdx + 1])
       THEN /\ pc' = "error"
            /\ err' = "ValueError"
            /\ events' = events \cup {"check"}
            /\ UNCHANGED <<opts, pending, cache>>
     ELSE /\ pc' = "glob"
          /\ pending' = Glob(categories[catIdx + 1], args.split)
          /\ events' = events \cup {"check"}
          /\ UNCHANGED <<opts, err, cache>>
  /\ UNCHANGED <<fsVars, cls, args, avail, categories, paths, labels, catIdx,
                 nsampled, ret, prev>>

\* self.paths.append(path)
AppendPath ==
  /\ pc = "glob"
  /\ pending # <<>>
  /\ paths' = Append(paths, Head(pending))
  /\ events' = events \cup {"append"}
  /\ pc' = "append_label"
  /\ UNCHANGED <<fsVars, cls, args, opts, err, avail, categories, labels, catIdx,
                 pending, accessVars, prev>>

\* self.labels.append(idx)
AppendLabel ==
  /\ pc = "append_label"
  /\ labels' = Append(labels, LabelFor(catIdx, labels))
  /\ pending' = Tail(pending)
  /\ pc' = "glob"
  /\ UNCHANGED <<fsVars, cls, args, opts, err, avail, categories, paths, catIdx,
                 events, accessVars, prev>>

\* The glob is exhausted: on to the next category.
EndGlob ==
  /\ pc = "glob"
  /\ pending = <<>>
  /\ catIdx' = catIdx + 1
  /\ pc' = "loop"
  /\ UNCHANGED <<fsVars, cls, args, opts, err, avail, categories, paths, labels,
                 pending, events, accessVars, prev>>

\* __len__
DsLen == Len(paths)

\* ------------------------------------------------------------- indexed access
\* A loaded sample: the file it comes from, its form, the full-resolution
\* sampling it is cut from (0: none kept), the rows of that sampling it holds,
\* in order, and whether the user's transform has been applied to it.
Sample(src, form, full, idxs, transformed) ==
  [src |-> src, form |-> form, full |-> full, idxs |-> idxs,
   transformed |-> transformed]

Returned(idx, data, label, steps) ==
  [kind |-> "value", idx |-> idx, data |-> data, label |-> label, steps |-> steps]

Raised(idx, exc, steps) ==
  [kind |-> "raise", idx |-> idx, exc |-> exc, steps |-> steps]

Iota(n) == [k \in 1..n |-> k]

\* ModelNet.__getitem__.  tOk: the user's transform returns (it may raise).
\* The label is returned as the one-element tensor [labels[idx]].
ModelNetAccess(idx, tOk) ==
  LET path == paths[idx + 1]
      label == {labels[idx + 1]}
      s0 == <<"from_off", "to_device", "label">>
  IN IF args.rep = "mesh"
       THEN IF ~opts.transform
              THEN Returned(idx, Sample(path, "mesh", 0, <<>>, FALSE), label, s0)
            ELSE IF tOk
              THEN Returned(idx, Sample(path, "mesh", 0, <<>>, TRUE), label,
                            s0 \o <<"transform">>)
            ELSE Raised(idx, "TransformError", s0 \o <<"transform">>)
     ELSE IF args.rep = "pointcloud"
       THEN IF ~opts.transform
              THEN Returned(idx, Sample(path, "points", 0, Iota(opts.num_points), FALSE),
                            label, s0 \o <<"sample">>)
            ELSE IF tOk
              THEN Returned(idx, Sample(path, "points", 0, Iota(opts.num_points), TRUE),
                            label, s0 \o <<"sample", "transform">>)
            ELSE Raised(idx, "TransformError", s0 \o <<"sample", "transform">>)
     ELSE Raised(idx, "NotImplementedError", s0)

ModelNetGetItem(idx, tOk) ==
  /\ cls = "ModelNet"
  /\ pc = "done"
  /\ ret' = ModelNetAccess(idx, tOk)
  /\ UNCHANGED <<fsVars, cls, args, opts, pc, err, loopVars, events, cache,
                 nsampled, prev>>

\* idx not in self.sample_cache
CacheMissAlways(idx) == TRUE
CacheMiss(idx) == ~(\E e \in cache : e[1] = idx)

CacheGet(idx) == (CHOOSE e \in cache : e[1] = idx)[2]
SampleCount(idx) ==
  IF \E e \in nsampled : e[1] = idx
    THEN (CHOOSE e \in nsampled : e[1] = idx)[2] ELSE 0

\* np.random.choice(n, size=size, replace=False): the index vectors it may
\* return; none when it raises ValueError (size > n).
ChoiceWithReplacement(n, size) == [1..size -> 1..n]
Choice(n, size) ==
  {v \in [1..size -> 1..n] : \A j, k \in 1..size : j # k => v[j] # v[k]}

\* What the handler `except: import pdb; pdb.set_trace()` leads to: the
\* debugger is continued and `return pts` runs, or the debugger quits.
Debugger == {"continue", "quit"}

\* ModelNetPointCloud.__getitem__: the outcomes of an access of idx, each with
\* the full-resolution sampling it used.  mesh.sample draws a new random
\* sampling each time it runs: the k-th sampling of paths[idx] is <<idx, k>>.
PointCloudOutcomes(idx) ==
  LET path == paths[idx + 1]
      miss == CacheMiss(idx)
      full == IF miss THEN <<idx, SampleCount(idx) + 1>> ELSE CacheGet(idx)
      s0 == IF miss THEN <<"from_off", "sample", "cache_write">> ELSE <<"cache_read">>
      vs == Choice(opts.sample_points, opts.num_points)
      s1 == s0 \o <<"choice", "index", "to_device">>
  IN IF vs = {}
       THEN \* ValueError in the try block, before pts is bound
            {[full |-> full, miss |-> miss,
              ret |-> Raised(idx, IF d = "continue" THEN "UnboundLocalError" ELSE "BdbQuit",
                             s0 \o <<"choice", "pdb">>)] : d \in Debugger}
     ELSE IF ~opts.transform
       THEN {[full |-> full, miss |-> miss,
              ret |-> Returned(idx, Sample(path, "points", full, v, FALSE), {}, s1)]
             : v \in vs}
     ELSE {[full |-> full, miss |-> miss,
            ret |-> Returned(idx, Sample(path, "points", full, v, TRUE), {},
                             s1 \o <<"transform">>)] : v \in vs}
          \cup \* the transform raises inside the try block: pts is bound
          {[full |-> full, miss |-> miss,
            ret |-> Returned(idx, Sample(path, "points", full, v, FALSE), {},
                             s1 \o <<"transform", "pdb">>)] : v \in vs}
          \cup
          {[full |-> full, miss |-> miss,
            ret |-> Raised(idx, "BdbQuit", s1 \o <<"transform", "pdb">>)]}

PointCloudGetItem(idx, o) ==
  /\ cls = "ModelNetPointCloud"
  /\ pc = "done"
  /\ cache' = IF o.miss THEN {e \in cache : e[1] # idx} \cup {<<idx, o.full>>}
              ELSE cache
  /\ nsampled' = IF o.miss
                   THEN {e \in nsampled : e[1] # idx} \cup {<<idx, SampleCount(idx) + 1>>}
                 ELSE nsampled
  /\ ret' = o.ret
  /\ UNCHANGED <<fsVars, cls, args, opts, pc, err, loopVars, events, prev>>

Init ==
  /\ tree \in [DirNames -> [Splits -> 0..MaxFiles]]
  /\ dirOrder \in Perms(DirNames)
  /\ cls = "none"
  /\ args = [rep |-> "-", split |-> "-", categories |-> <<>>]
  /\ opts = NoOpts
  /\ pc = "none"
  /\ err = ""
  /\ avail = <<>>
  /\ categories = <<>>
  /\ paths = <<>>
  /\ labels = <<>>
  /\ catIdx = 0
  /\ pending = <<>>
  /\ events = {}
  /\ cache = {}
  /\ nsampled = {}
  /\ ret = [kind |-> "none"]
  /\ prev = {}

\* Construction, and construction again with the same category list and split.
Next ==
  \/ \E c \in Classes : \E a \in ArgSets(c) : Construct(c, a)
  \/ \E c \in Scanning : \E rep \in RepSets(c) : Reconstruct(c, rep)
  \/ ListDir
  \/ NextCategory
  \/ AppendPath
  \/ AppendLabel
  \/ EndGlob

Spec == Init /\ [][Next]_vars

\* Construction followed by indexed accesses, over the trees whose
\* directories hold at most one file each.  A dataset still holds up to
\* MaxCats samples, with labels 0..MaxCats-1.
InitAccess ==
  /\ Init
  /\ \A c \in DirNames : \A sp \in Splits : tree[c][sp] \in {0, 1}

NextAccess ==
  \/ \E c \in Classes : \E a \in ArgSets(c) : Construct(c, a)
  \/ ListDir
  \/ NextCategory
  \/ AppendPath
  \/ AppendLabel
  \/ EndGlob
  \/ \E idx \in 0..(DsLen - 1) : \E tOk \in BOOLEAN : ModelNetGetItem(idx, tOk)
  \/ \E idx \in 0..(DsLen - 1) : \E o \in PointCloudOutcomes(idx) :
        PointCloudGetItem(idx, o)

SpecAccess == InitAccess /\ [][NextAccess]_vars
\* ------------------------------------------------------------- properties
Range(f) == {f[k] : k \in DOMAIN f}
Occurrences(f, x) == Cardinality({k \in DOMAIN f : f[k] = x})
Injective(f) == \A j, k \in DOMAIN f : j # k => f[j] # f[k]
RequestsUnknown == \E k \in DOMAIN args.categories : args.categories[k] \notin DirNames
Accessed == pc = "done" /\ ret.kind # "none"
CacheHitAccess == Accessed /\ ret.steps[1] = "cache_read"
TransformRaised ==
  /\ Len(ret.steps) >= 2
  /\ ret.steps[Len(ret.steps) - 1] = "transform"
  /\ ret.steps[Len(ret.steps)] = "pdb"

\* C1 (as claimed): a constructor of any of the three classes that is given a
\* category list naming a category absent from the directory listing builds no
\* dataset and ends in a validation error (ValueError or AssertionError).
C1_UnknownCategoryFailsValidation ==
  (cls \in Classes /\ RequestsUnknown) =>
     /\ pc # "done"
     /\ pc = "error" => err \in {"ValueError", "AssertionError"}

\* C2: ModelNet with a rep other than 'mesh'/'pointcloud', and ModelNet or
\* ModelNetPointCloud with a split other than 'train'/'test', raise ValueError
\* before basedir is listed, before any category is checked and before any path
\* or label is recorded.
C2_InvalidKeywordFailsFirst ==
  ( \/ cls = "ModelNet" /\ args.rep \notin {"mesh", "pointcloud"}
    \/ cls \in Scanning /\ args.split \notin {"train", "test"} ) =>
     /\ pc = "error"
     /\ err = "ValueError"
     /\ events = {}
     /\ avail = <<>>
     /\ categories = <<>>
     /\ paths = <<>>
     /\ labels = <<>>

C2_Witness ==
  /\ cls = "ModelNetPointCloud"
  /\ args.split = "val"
  /\ args.categories = <<"chair", "sofa">>
  /\ pc = "error"

\* The files of a category/split directory.
FilesOf(cat, split) == {<<cat, split, k>> : k \in 1..tree[cat][split]}

\* The files of the directories the constructor scanned, each counted once.
ScannedFiles == UNION {FilesOf(c, args.split) : c \in Range(categories)}

\* The matches of the scans of the first n positions of the category list.
RECURSIVE MatchedUpTo(_)
MatchedUpTo(n) ==
  IF n = 0 THEN 0 ELSE MatchedUpTo(n - 1) + tree[categories[n]][args.split]

\* C3 (as claimed): the length of a constructed dataset is the number of files
\* under the scanned category/split directories, also when the category list
\* names a category more than once, and no access changes it.
C3_LenIsNumberOfFiles ==
  pc = "done" => DsLen = Cardinality(ScannedFiles)

\* C3 (amended): the length of a constructed dataset is the number of matches
\* summed over the positions of the category list, a file counting once for
\* each position that names its category, and no access changes it.
C3_LenIsSumOfMatches ==
  pc = "done" => DsLen = MatchedUpTo(Len(categories))

C3_Witness ==
  /\ Accessed
  /\ categories = <<"chair", "chair">>
  /\ DsLen = 2
  /\ Cardinality(ScannedFiles) = 1

\* C4 (as claimed): every indexed access that returns, in every class, returns
\* the sample together with its label.
C4_AccessReturnsLabel ==
  (Accessed /\ ret.kind = "value") => ret.label = {labels[ret.idx + 1]}

\* The rows of a returned point cloud are num_points distinct rows of the
\* full-resolution sampling cached for its index.
RowsFromCache ==
  /\ ret.data.form = "points"
  /\ Len(ret.data.idxs) = opts.num_points
  /\ Injective(ret.data.idxs)
  /\ Range(ret.data.idxs) \subseteq 1..opts.sample_points
  /\ <<ret.idx, ret.data.full>> \in cache

\* C5 (as claimed): in ModelNetPointCloud, for every pair (num_points,
\* sample_points), an access of a cached index (whose transform, if any, does
\* not raise) returns num_points distinct rows of the cached sampling.
C5_CachedAccessReturnsNumPoints ==
  (cls = "ModelNetPointCloud" /\ CacheHitAccess /\ ~TransformRaised) =>
     ret.kind = "value" /\ RowsFromCache

\* C5 (amended): with num_points <= sample_points an access of a cached index
\* returns unless the user's transform raises, and what it returns is, before
\* the transform, num_points distinct rows of the cached sampling; with
\* num_points > sample_points no access returns.
C5_CachedAccessSubsamples ==
  (cls = "ModelNetPointCloud" /\ CacheHitAccess) =>
     IF opts.num_points <= opts.sample_points
       THEN /\ ret.kind = "value" => RowsFromCache
            /\ ret.kind = "raise" => TransformRaised
       ELSE ret.kind = "raise"

C5_Witness ==
  /\ cls = "ModelNetPointCloud"
  /\ CacheHitAccess
  /\ ret.kind = "value"
  /\ opts.num_points < opts.sample_points
  /\ RowsFromCache

\* C6: in ModelNetPointCloud no step overwrites or removes a cache entry; the
\* mesh of an index is sampled at most once, by the access that caches it; and
\* an access that returns uses the sampling stored for its index.
C6_CacheEntriesAreKept ==
  /\ [][cache \subseteq cache']_vars
  /\ [](cls = "ModelNetPointCloud" =>
          /\ \A e \in nsampled : e[2] = 1 /\ <<e[1], <<e[1], 1>>>> \in cache
          /\ \A e \in cache : <<e[1], 1>> \in nsampled
          /\ (Accessed /\ ret.kind = "value") => <<ret.idx, ret.data.full>> \in cache)

C6_Witness ==
  /\ cls = "ModelNetPointCloud"
  /\ CacheHitAccess
  /\ ret.kind = "value"
  /\ Cardinality(cache) >= 2

\* C7: for a caller-supplied category list the samples labelled i are exactly
\* the files found under the category at position i of the list, and a second
\* construction with the same list and split gives every sample the same label.
C7_LabelsArePositionalAndStable ==
  (pc = "done" /\ cls \in Scanning) =>
     /\ \A i \in DOMAIN args.categories :
          {pl[1] : pl \in {q \in Pairs(paths, labels) : q[2] = i - 1}}
            = FilesOf(args.categories[i], args.split)
     /\ args.categories # <<>> => Range(labels) \subseteq 0..(Len(args.categories) - 1)
     /\ prev # {} => prev = {Pairs(paths, labels)}

C7_Witness ==
  /\ pc = "done"
  /\ prev # {}
  /\ args.categories = <<"bed", "chair">>
  /\ labels = <<1>>

\* The positions of the category list whose directory holds a matching file.
PopulatedPositions ==
  {i \in DOMAIN categories : tree[categories[i]][args.split] > 0}

\* C8 (as claimed): the number of distinct labels of a constructed ModelNet or
\* ModelNetPointCloud dataset is the number of its categories, also when a
\* requested category has no matching file.
C8_LabelSetSizeIsCategoryCount ==
  (pc = "done" /\ cls \in Scanning) =>
     Cardinality(Range(labels)) = Len(categories)

\* C8 (amended): the number of distinct labels is the number of positions of
\* the category list whose directory holds a matching file; it is the number
\* of categories exactly when every position has one.
C8_LabelSetSizeIsPopulatedCount ==
  (pc = "done" /\ cls \in Scanning) =>
     /\ Cardinality(Range(labels)) = Cardinality(PopulatedPositions)
     /\ Range(labels) = {i - 1 : i \in PopulatedPositions}

C8_Witness ==
  /\ pc = "done"
  /\ cls \in Scanning
  /\ Len(categories) = 2
  /\ Cardinality(PopulatedPositions) = 1
  /\ Range(labels) = {1}

\* C9 (as claimed): an access of a dataset with a transform that returns has
\* run the transform exactly once, as its last step, and returns its result.
C9_TransformIsLastStep ==
  (Accessed /\ opts.transform /\ ret.kind = "value") =>
     /\ ret.steps[Len(ret.steps)] = "transform"
     /\ Occurrences(ret.steps, "transform") = 1
     /\ ret.data.transformed

\* What C10 says of the entries recorded so far.
RecordedLabelsFit ==
  /\ \A k \in DOMAIN labels :
       /\ labels[k] \in 0..(Len(categories) - 1)
       /\ k \in DOMAIN paths
       /\ categories[labels[k] + 1] = paths[k][1]
  /\ \A j, k \in DOMAIN labels : j <= k => labels[j] <= labels[k]

\* C10 (as claimed): at every point of construction and afterwards the path
\* list and the label list have the same length, every label is in
\* 0..len(categories)-1 and is a position of its path's category, and the
\* labels are non-decreasing.
C10_ListsAlignEverywhere ==
  cls \in Scanning => (Len(paths) = Len(labels) /\ RecordedLabelsFit)

\* C10 (amended): the same, except between the two appends of one file, where
\* the path list is one longer than the label list.
C10_ListsAlignBetweenFiles ==
  cls \in Scanning =>
     /\ Len(paths) = Len(labels) + (IF pc = "append_label" THEN 1 ELSE 0)
     /\ RecordedLabelsFit

C10_Witness ==
  /\ pc = "append_label"
  /\ Len(labels) = 1
  /\ catIdx = 1
  /\ Len(paths) = 2
====
